---- MODULE Spec2Model ----
(***************************************************************************)
(* Model of solver_tools.py: get_grid_for_solver, set_boundary and the     *)
(* part of get_solution that is written in this file.  The training loop,  *)
(* the early-stopping callback and the plot callback are tedeous library   *)
(* objects that get_solution only configures and calls; their code is not  *)
(* part of solver_tools.py and is modelled here only as an opaque call.    *)
(*                                                                         *)
(* Coordinates are modelled by integers.  A tensor is a record             *)
(* [shape, data] with data in row-major order.                             *)
(***************************************************************************)
EXTENDS Integers, Sequences, FiniteSets, TLC

VARIABLES
    pc,              \* which call is running and where it stands
    arg0,            \* get_grid_for_solver: the coordinate list
    grid,            \* get_grid_for_solver: the tensor returned
    arg_values,      \* set_boundary: argument values
    func_values,     \* set_boundary: function values
    variable_names,  \* set_boundary: the iterable of variable names
    boundaries,      \* the dirichlet conditions added to Conditions(), in order
    grid_training,   \* get_solution: training coordinates as passed in
    grid_test,       \* get_solution: test coordinates as passed in
    mode,            \* get_solution: the solver mode string
    t_training,      \* get_solution: grid_training after line 84
    t_test,          \* get_solution: grid_test after line 85
    net,             \* get_solution: which constructor built net (line 95)
    train            \* get_solution: how the model.train call ended

vars == <<pc, arg0, grid, arg_values, func_values, variable_names, boundaries,
          grid_training, grid_test, mode, t_training, t_test, net, train>>

\* ------------------------------------------------------------ bounds
\* Longest coordinate list handed to get_grid_for_solver.
MaxLen == 4
\* Longest list handed to set_boundary.
MaxBnd == 2
\* Longest grid handed to get_solution.
MaxGridLen == 2

\* ------------------------------------------------------------ helpers
RECURSIVE Pow2(_)
Pow2(n) == IF n = 0 THEN 1 ELSE 2 * Pow2(n - 1)

RECURSIVE Log2(_)
\* floor(log2(a)) for a >= 1
Log2(a) == IF a < 2 THEN 0 ELSE 1 + Log2(a \div 2)

Abs(x) == IF x < 0 THEN -x ELSE x

Min(a, b) == IF a < b THEN a ELSE b

Min3(a, b, c) == Min(a, Min(b, c))

SeqsUpTo(S, n) == UNION {[1..k -> S] : k \in 0..n}

\* ------------------------------------------------------------ torch
\* Significand width of a single-precision float (torch.float32).
Float32Precision == 24

\* Tensor.float() on one entry: round to nearest single-precision value,
\* ties to even.  Integers below 2^24 in magnitude are kept exactly.
Float32(x) ==
    IF x = 0 THEN 0
    ELSE LET a   == Abs(x)
             e   == Log2(a)
             ulp == IF e < Float32Precision THEN 1
                    ELSE Pow2(e - (Float32Precision - 1))
             q   == a \div ulp
             r   == a % ulp
             up  == 2 * r > ulp \/ (2 * r = ulp /\ q % 2 = 1)
             m   == (IF up THEN q + 1 ELSE q) * ulp
         IN  IF x < 0 THEN -m ELSE m

\* torch.tensor([arg0]) for a flat sequence arg0: one row of Len(arg0) entries.
TensorOfList(xs) == [shape |-> <<1, Len(xs)>>, data |-> xs]

\* Mutant of Reshape: the -1 placed on the wrong axis (a row, not a column).
ReshapeRow(t) == [shape |-> <<1, Len(t.data)>>, data |-> t.data]

\* Tensor.reshape(-1, 1): as many rows as there are entries, one column,
\* entries kept in row-major order.
Reshape(t) == [shape |-> <<Len(t.data), 1>>, data |-> t.data]

\* Tensor.float(): every entry converted to single precision.
ToFloat(t) == [shape |-> t.shape,
               data  |-> [i \in 1..Len(t.data) |-> Float32(t.data[i])]]

\* get_grid_for_solver(arg0)
GetGridForSolver(xs) == ToFloat(Reshape(TensorOfList(xs)))

\* ------------------------------------------------------------ set_boundary
\* The default of variable_names is the str 'y'; zip iterates its characters.
DefaultVariableNames == <<"y">>

\* zip(arg_values, func_values, variable_names) stops at the shortest input;
\* each triple makes one boundaries.dirichlet({var_name: arg_val}, value=func_val)
\* call, in order.
SetBoundary(av, fv, vn) ==
    [i \in 1..Min3(Len(av), Len(fv), Len(vn)) |->
        [var |-> vn[i], loc |-> av[i], value |-> fv[i]]]

\* ------------------------------------------------------------ get_solution
NetworkModes == {"NN", "autograd"}

\* Mutant of SelectNet: the two branches of the conditional swapped.
SelectNetSwapped(m) == IF m \in NetworkModes THEN "mat_model" ELSE "get_nn"

\* net = get_nn() if mode in {'NN', 'autograd'} else mat_model(domain, equation)
SelectNet(m) == IF m \in NetworkModes THEN "get_nn" ELSE "mat_model"

\* ------------------------------------------------------------ inputs
\* A coordinate that single precision cannot hold: 2^24 + 1.
BigCoord == Pow2(Float32Precision) + 1

Coords == {-1, 0, BigCoord}

ArgVals == {0, 1}

FuncVals == {-1, 2}

VarNames == {"y", "x"}

Modes == {"NN", "autograd", "mat", "other"}

NoTensor == [shape |-> <<0, 0>>, data |-> <<>>]

\* The variables of the calls that are not running.
IdleGrid == arg0 = <<>> /\ grid = NoTensor

IdleBoundary == arg_values = <<>> /\ func_values = <<>> /\ variable_names = <<>>

IdleSolution ==
    /\ grid_training = <<>> /\ grid_test = <<>> /\ mode = "autograd"
    /\ t_training = NoTensor /\ t_test = NoTensor
    /\ net = "none" /\ train = "none"

\* ------------------------------------------------------------ get_grid_for_solver
InitGrid ==
    /\ pc = "grid_call"
    /\ arg0 \in SeqsUpTo(Coords, MaxLen)
    /\ grid = NoTensor
    /\ boundaries = <<>>
    /\ IdleBoundary /\ IdleSolution

get_grid_for_solver ==
    /\ pc = "grid_call"
    /\ grid' = GetGridForSolver(arg0)
    /\ pc' = "grid_returned"
    /\ UNCHANGED <<arg0, arg_values, func_values, variable_names, boundaries,
                   grid_training, grid_test, mode, t_training, t_test, net, train>>

NextGrid == get_grid_for_solver

SpecGrid == InitGrid /\ [][NextGrid]_vars

\* ------------------------------------------------------------ set_boundary
InitBoundary ==
    /\ pc = "bnd_call"
    /\ arg_values \in SeqsUpTo(ArgVals, MaxBnd)
    /\ func_values \in SeqsUpTo(FuncVals, MaxBnd)
    \* the default, <<"y">>, is one of these
    /\ variable_names \in SeqsUpTo(VarNames, MaxBnd)
    /\ boundaries = <<>>
    /\ IdleGrid /\ IdleSolution

\* The function has no raise and no length check: every call returns.
set_boundary ==
    /\ pc = "bnd_call"
    /\ boundaries' = SetBoundary(arg_values, func_values, variable_names)
    /\ pc' = "bnd_returned"
    /\ UNCHANGED <<arg0, grid, arg_values, func_values, variable_names,
                   grid_training, grid_test, mode, t_training, t_test, net, train>>

NextBoundary == set_boundary

SpecBoundary == InitBoundary /\ [][NextBoundary]_vars

\* ------------------------------------------------------------ get_solution
InitSolution ==
    /\ pc = "L84"
    /\ grid_training \in SeqsUpTo(Coords, MaxGridLen)
    /\ grid_test \in SeqsUpTo(Coords, MaxGridLen)
    /\ mode \in Modes
    /\ t_training = NoTensor /\ t_test = NoTensor
    /\ net = "none" /\ train = "none"
    /\ boundaries = <<>>
    /\ IdleGrid /\ IdleBoundary

\* line 84
sol_grid_training ==
    /\ pc = "L84"
    /\ t_training' = GetGridForSolver(grid_training)
    /\ pc' = "L85"
    /\ UNCHANGED <<arg0, grid, arg_values, func_values, variable_names, boundaries,
                   grid_training, grid_test, mode, t_test, net, train>>

\* line 85
sol_grid_test ==
    /\ pc = "L85"
    /\ t_test' = GetGridForSolver(grid_test)
    /\ pc' = "L90"
    /\ UNCHANGED <<arg0, grid, arg_values, func_values, variable_names, boundaries,
                   grid_training, grid_test, mode, t_training, net, train>>

\* line 90: set_boundary([0.0], [-1]) with the default variable_names
sol_set_boundary ==
    /\ pc = "L90"
    /\ boundaries' = SetBoundary(<<0>>, <<-1>>, DefaultVariableNames)
    /\ pc' = "L95"
    /\ UNCHANGED <<arg0, grid, arg_values, func_values, variable_names,
                   grid_training, grid_test, mode, t_training, t_test, net, train>>

\* line 95
sol_select_net ==
    /\ pc = "L95"
    /\ net' = SelectNet(mode)
    /\ pc' = "L97"
    /\ UNCHANGED <<arg0, grid, arg_values, func_values, variable_names, boundaries,
                   grid_training, grid_test, mode, t_training, t_test, train>>

\* lines 97-107: Model(...), compile, the callbacks and model.train are tedeous
\* calls; this file has no handler around them, so the call either returns or
\* its exception leaves get_solution.
sol_train ==
    /\ pc = "L97"
    /\ \E outcome \in {"returned", "raised"} :
          /\ train' = outcome
          /\ pc' = IF outcome = "returned" THEN "L108" ELSE "sol_raised"
    /\ UNCHANGED <<arg0, grid, arg_values, func_values, variable_names, boundaries,
                   grid_training, grid_test, mode, t_training, t_test, net>>

\* lines 108-110
sol_return ==
    /\ pc = "L108"
    /\ pc' = "sol_returned"
    /\ UNCHANGED <<arg0, grid, arg_values, func_values, variable_names, boundaries,
                   grid_training, grid_test, mode, t_training, t_test, net, train>>

NextSolution ==
    \/ sol_grid_training
    \/ sol_grid_test
    \/ sol_set_boundary
    \/ sol_select_net
    \/ sol_train
    \/ sol_return

SpecSolution == InitSolution /\ [][NextSolution]_vars

\* All three entry points together.
Init == InitGrid \/ InitBoundary \/ InitSolution

Next == NextGrid \/ NextBoundary \/ NextSolution

Spec == Init /\ [][Next]_vars

\* ------------------------------------------------------------ properties

\* C5 (as claimed): set_boundary on three lists of equal length N >= 1 returns
\* exactly N conditions in input order, and on lists whose lengths differ it
\* does not return (it fails with BoundaryLengthMismatchError).
C5_LengthMismatchRejected ==
    pc = "bnd_returned" =>
        /\ Len(arg_values) = Len(func_values)
        /\ Len(func_values) = Len(variable_names)
        /\ Len(boundaries) = Len(arg_values)
        /\ \A i \in 1..Len(boundaries) :
              boundaries[i] = [var |-> variable_names[i], loc |-> arg_values[i],
                               value |-> func_values[i]]

\* The part of C5 about equal lengths, on its own: N conditions, input order.
EqualLengthsPreserved ==
    (pc = "bnd_returned" /\ Len(arg_values) = Len(func_values)
                         /\ Len(func_values) = Len(variable_names)) =>
        /\ Len(boundaries) = Len(arg_values)
        /\ \A i \in 1..Len(boundaries) :
              boundaries[i] = [var |-> variable_names[i], loc |-> arg_values[i],
                               value |-> func_values[i]]

\* What the code does when the lengths differ: it returns the conditions of
\* the shortest list's length.
MismatchTruncates ==
    pc = "bnd_returned" =>
        Len(boundaries) = Min3(Len(arg_values), Len(func_values), Len(variable_names))

\* C6 (as claimed): for a non-empty coordinate sequence of length N the grid has
\* N rows and 1 column and its entries are the input coordinates, in order.
C6_EntriesAreInputs ==
    (pc = "grid_returned" /\ Len(arg0) >= 1) =>
        /\ grid.shape = <<Len(arg0), 1>>
        /\ Len(grid.data) = Len(arg0)
        /\ \A i \in 1..Len(arg0) : grid.data[i] = arg0[i]

\* An integer that a single-precision float holds exactly: its significand
\* fits in 24 bits.
Representable32(y) ==
    y = 0 \/ Abs(y) % Pow2(IF Log2(Abs(y)) > 23 THEN Log2(Abs(y)) - 23 ELSE 0) = 0

\* y is a single-precision value nearest to x.
NearestFloat32(y, x) ==
    /\ Representable32(y)
    /\ \A z \in (x - Abs(y - x))..(x + Abs(y - x)) :
          Representable32(z) => Abs(z - x) >= Abs(y - x)

\* C6 (amended): for a non-empty coordinate sequence of length N the grid has
\* N rows and 1 column and its i-th entry is the i-th input coordinate converted
\* to single precision: a single-precision value nearest to it, hence the
\* coordinate itself whenever single precision holds it exactly.
C6_ColumnOfRoundedInputs ==
    (pc = "grid_returned" /\ Len(arg0) >= 1) =>
        /\ grid.shape = <<Len(arg0), 1>>
        /\ Len(grid.data) = Len(arg0)
        /\ \A i \in 1..Len(arg0) : NearestFloat32(grid.data[i], arg0[i])

C6_Witness ==
    /\ pc = "grid_returned"
    /\ Len(arg0) = 3
    /\ arg0[1] = BigCoord /\ arg0[2] = -1 /\ arg0[3] = 0
    /\ grid.shape = <<3, 1>>
    /\ grid.data[1] # arg0[1]

\* get_solution has executed line 95.
NetSelected == pc \in {"L97", "L108", "sol_raised", "sol_returned"}

\* C9 (as claimed): the network is chosen exactly for NN and autograd, the grid
\* model exactly for mat, and no other mode value selects an approximator.
C9_OnlyKnownModesSelect ==
    /\ ~NetSelected => net = "none"
    /\ NetSelected =>
          /\ net = "get_nn" <=> mode \in {"NN", "autograd"}
          /\ net = "mat_model" <=> mode = "mat"
          /\ mode \notin {"NN", "autograd", "mat"} => net = "none"

\* C9 (amended): the approximator is resolved once, at line 95, from mode: the
\* network exactly when mode is NN or autograd, and the grid model for every
\* other mode value, mat and unknown strings alike.
C9_NetworkOrElseGrid ==
    /\ ~NetSelected => net = "none"
    /\ NetSelected =>
          /\ net = "get_nn" <=> mode \in {"NN", "autograd"}
          /\ net = "mat_model" <=> mode \notin {"NN", "autograd"}

C9_Witness == NetSelected /\ mode = "other" /\ net = "mat_model"

====
